---- MODULE Spec2Model ----
(***************************************************************************)
(* AtlasWriter (src/atlas_writer-5.py): selection, concatenation,          *)
(* truncation and polyA tailing of locus segments read from a FASTA file.  *)
(*                                                                         *)
(* One run of main() is modelled as a pipeline                             *)
(*   load_segments -> parse_segment_selection -> parse_truncation          *)
(*   -> parse_poly_a -> combine_segments                                   *)
(* with one action per step.  Each parser is an operator that returns a    *)
(* record whose field st is "ok", "exit" (sys.exit) or "KeyError" (an      *)
(* uncaught exception).                                                    *)
(*                                                                         *)
(* Text is modelled as sequences of one-character strings.  Python's       *)
(* Optional[int] is a sequence: None is <<>>, the integer v is <<v>>.      *)
(* The textual command line arguments are modelled after lexing, as        *)
(* records (see SelectionTokens, TruncationSpecs, PolyADirectives); every  *)
(* text the lexing code rejects is the form "bad".                         *)
(***************************************************************************)
EXTENDS Integers, Sequences, FiniteSets, TLC

VARIABLES
    pc,                 \* position in main(): "start", "loaded", "selected",
                        \* "truncated", "tailed", "done", "exit"
    failedAt,           \* the step that ended the run ("" while it runs)
    segments,           \* self.segments: (id, start) pairs sorted by start
    segment_data,       \* self.segment_data: id -> parsed record
    selection,          \* args.include_locus_segment, lexed
    truncate,           \* args.truncate, lexed (<<>> when not given)
    polyA,              \* args.polyA, lexed (<<>> when not given)
    selected_indices,   \* main's selected_indices
    global_start,       \* main's global_start (Optional)
    global_end,         \* main's global_end (Optional)
    poly_a_count_from_truncate,
    poly_a_pos,         \* main's poly_a_pos (Optional)
    poly_a_count,       \* main's poly_a_count (Optional)
    header,             \* the header combine_segments returned (<<>> if none)
    sequence            \* the sequence combine_segments returned

vars == <<pc, failedAt, segments, segment_data, selection, truncate, polyA,
          selected_indices, global_start, global_end,
          poly_a_count_from_truncate, poly_a_pos, poly_a_count,
          header, sequence>>

(***************************************************************************)
(* Bounds of the explored inputs.                                          *)
(***************************************************************************)
MaxRecords == 2
MaxLen == 2
MaxTokens == 2

None == <<>>
Some(v) == <<v>>
IsNone(o) == o = <<>>
Val(o) == o[1]

(***************************************************************************)
(* Generic sequence helpers.                                               *)
(***************************************************************************)
Min2(a, b) == IF a < b THEN a ELSE b
Max2(a, b) == IF a > b THEN a ELSE b

\* Python s[:k] for any integer k (a negative k counts from the end).
PySliceTo(s, k) ==
    LET stop == IF k < 0 THEN Max2(Len(s) + k, 0) ELSE Min2(k, Len(s))
    IN  SubSeq(s, 1, stop)

\* Python s[a:b] for any integers a, b.
PySlice(s, a, b) ==
    LET lo == IF a < 0 THEN Max2(Len(s) + a, 0) ELSE Min2(a, Len(s))
        hi == IF b < 0 THEN Max2(Len(s) + b, 0) ELSE Min2(b, Len(s))
    IN  SubSeq(s, lo + 1, hi)

\* Python 'A' * n (empty for n <= 0).
Repeat(c, n) == [k \in 1..Max2(n, 0) |-> c]


(***************************************************************************)
(* The input file.  A record of the file is                                *)
(*   pre    the header line up to the position pattern (it starts with     *)
(*          '>', as the entry pattern of load_segments requires),          *)
(*   hasPos whether ':<digits>-<digits>' follows pre,                      *)
(*   start, end   the two numbers of the position pattern,                 *)
(*   body   the sequence lines, newlines included.                         *)
(***************************************************************************)
Alphabet == <<"A", "C", "G", "T">>

\* The k-th base of record i: a fixed pattern in which neighbours differ.
Base(i, k) == Alphabet[((i + k) % 4) + 1]

\* n bases of record i, written on lines of one base each.
\* A record without bases has one empty line.
Body(i, n) ==
    IF n = 0 THEN <<"\n">>
    ELSE [k \in 1..(2 * n) |->
            IF k % 2 = 1 THEN Base(i, (k + 1) \div 2) ELSE "\n"]

\* The accession text of record i: a letter, a name and a version suffix.
AccessionText(i) == <<Alphabet[(i % 4) + 1], "Z", ".", "1">>

Layouts == {"contiguous", "reversed", "loose"}

RECURSIVE TotalBefore(_, _)
TotalBefore(lens, i) ==
    IF i <= 1 THEN 0 ELSE lens[i - 1] + TotalBefore(lens, i - 1)

\* The reference start the layout gives record i.
RefStart(layout, lens, i) ==
    CASE layout = "contiguous" -> 1 + TotalBefore(lens, i)
      [] layout = "reversed"   -> 10 * (Len(lens) - i) + 1
      [] OTHER                 -> 10 * i

\* The reference end the layout gives record i ("loose": one more than the
\* content spans, since the file format does not tie the two together).
RefEnd(layout, lens, i) ==
    CASE layout = "loose" -> RefStart(layout, lens, i) + lens[i]
      [] OTHER            -> RefStart(layout, lens, i) + lens[i] - 1

\* The file with Len(lens) records of the given content lengths, whose
\* record number drop (0: none) has a header without position pattern.
MakeFile(lens, layout, drop) ==
    [i \in 1..Len(lens) |->
        [pre    |-> <<">">> \o AccessionText(i),
         hasPos |-> (i # drop),
         start  |-> RefStart(layout, lens, i),
         end    |-> RefEnd(layout, lens, i),
         body   |-> Body(i, lens[i])]]

LenVectors ==
    UNION {[1..n -> 0..MaxLen] : n \in 1..MaxRecords}

\* Files of every layout, all headers well formed.
FilesWellFormed ==
    {MakeFile(lens, layout, 0) : lens \in LenVectors, layout \in Layouts}

\* Well formed files whose reference ranges follow one another.
FilesContiguous == {MakeFile(lens, "contiguous", 0) : lens \in LenVectors}

\* Contiguous files in which at most one record has an unparsable header.
FilesWithDrops ==
    UNION {{MakeFile(lens, "contiguous", d) : d \in 0..Len(lens)} :
           lens \in LenVectors}

(***************************************************************************)
(* load_segments                                                           *)
(***************************************************************************)
Whitespace == {" ", "\n", "\t"}

RECURSIVE LStrip(_)
LStrip(s) ==
    IF s # <<>> /\ Head(s) \in Whitespace THEN LStrip(Tail(s)) ELSE s

RECURSIVE RStrip(_)
RStrip(s) ==
    IF s # <<>> /\ s[Len(s)] \in Whitespace
    THEN RStrip(SubSeq(s, 1, Len(s) - 1)) ELSE s

\* str.strip()
Strip(s) == RStrip(LStrip(s))

IsNotNewline(c) == c # "\n"

\* sequence.replace('\n', '').strip()
CleanSequence(body) == Strip(SelectSeq(body, IsNotNewline))

RECURSIVE ColonFreeSuffix(_)
\* The longest run without ':' that ends the text: group 1 of
\* re.search(r'([^:]+):(\d+)-(\d+)', header) when the pattern follows it.
ColonFreeSuffix(s) ==
    IF s = <<>> \/ s[Len(s)] = ":" THEN <<>>
    ELSE ColonFreeSuffix(SubSeq(s, 1, Len(s) - 1)) \o <<s[Len(s)]>>

\* Whether the header matches the position pattern.
HeaderMatches(rec) == rec.hasPos /\ ColonFreeSuffix(rec.pre) # <<>>

\* match.group(1)
MatchAccession(rec) == ColonFreeSuffix(rec.pre)

RECURSIVE InsertByStart(_, _)
\* Insert e after every element whose start is <= e.start (a stable sort).
InsertByStart(sorted, e) ==
    IF sorted = <<>> THEN <<e>>
    ELSE IF Head(sorted).start <= e.start
         THEN <<Head(sorted)>> \o InsertByStart(Tail(sorted), e)
         ELSE <<e>> \o sorted

RECURSIVE SortByStart(_)
\* list.sort(key=lambda x: x[2])
SortByStart(s) ==
    IF s = <<>> THEN <<>>
    ELSE InsertByStart(SortByStart(SubSeq(s, 1, Len(s) - 1)), s[Len(s)])

RECURSIVE ParsedEntries(_, _)
\* The (id, start) pairs appended to self.segments, in file order.
ParsedEntries(file, i) ==
    IF i > Len(file) THEN <<>>
    ELSE (IF HeaderMatches(file[i])
          THEN <<[id |-> i, start |-> file[i].start]>> ELSE <<>>)
         \o ParsedEntries(file, i + 1)

\* self.segments after load_segments
LoadedSegments(file) == SortByStart(ParsedEntries(file, 1))

\* self.segment_data after load_segments
LoadedData(file) ==
    [i \in {j \in 1..Len(file) : HeaderMatches(file[j])} |->
        [accession |-> MatchAccession(file[i]),
         start     |-> file[i].start,
         end       |-> file[i].end,
         sequence  |-> CleanSequence(file[i].body)]]


(***************************************************************************)
(* parse_segment_selection                                                 *)
(*                                                                         *)
(* A token of the comma separated expression is                            *)
(*   kind "id":    a text without '-' that int() accepts; a is its value,  *)
(*   kind "range": a text 'A-B' with exactly one '-' whose two sides       *)
(*                 int() accepts; a and b are their values,                *)
(*   kind "bad":   any other text (int() or the unpacking raises           *)
(*                 ValueError).                                            *)
(* No '-' is left for a sign, so a and b are never negative.               *)
(***************************************************************************)
IdToken(n) == [kind |-> "id", a |-> n, b |-> n]
RangeToken(x, y) == [kind |-> "range", a |-> x, b |-> y]
BadToken == [kind |-> "bad", a |-> 0, b |-> 0]

\* list(range(a, b + 1))
RangeList(a, b) == [k \in 1..(b - a + 1) |-> a + k - 1]

RECURSIVE SortedSet(_)
\* sorted(S) for a finite set of integers
SortedSet(S) ==
    IF S = {} THEN <<>>
    ELSE LET m == CHOOSE x \in S : \A y \in S : x <= y
         IN  <<m>> \o SortedSet(S \ {m})

ToSet(s) == {s[k] : k \in DOMAIN s}

Exit == [st |-> "exit", val |-> <<>>]

\* Mutation of RangeTokenInvalid: the test start > end is forgotten.
RangeTokenInvalidNoOrder(part, nsegs) ==
    part.a < 1 \/ part.b > nsegs

\* The bound check of a range token (line 91).
RangeTokenInvalid(part, nsegs) ==
    part.a < 1 \/ part.b > nsegs \/ part.a > part.b

\* The bound check of a single index (line 100).
IdTokenInvalid(part, nsegs) ==
    part.a < 1 \/ part.a > nsegs

RECURSIVE CollectIndices(_, _, _)
\* The loop over the parts: selected_indices, or the first sys.exit.
CollectIndices(parts, nsegs, acc) ==
    IF parts = <<>> THEN [st |-> "ok", val |-> acc]
    ELSE LET part == Head(parts) IN
         CASE part.kind = "range" ->
                IF RangeTokenInvalid(part, nsegs) THEN Exit
                ELSE CollectIndices(Tail(parts), nsegs,
                                    acc \o RangeList(part.a, part.b))
           [] part.kind = "id" ->
                IF IdTokenInvalid(part, nsegs) THEN Exit
                ELSE CollectIndices(Tail(parts), nsegs, acc \o <<part.a>>)
           [] OTHER -> Exit

\* return sorted(set(selected_indices))
SelectionResult(acc) == SortedSet(ToSet(acc))

parse_segment_selection(expr, segs) ==
    LET r == CollectIndices(expr, Len(segs), <<>>)
    IN  IF r.st = "ok" THEN [st |-> "ok", val |-> SelectionResult(r.val)]
        ELSE r

(***************************************************************************)
(* Coordinate helpers shared by the parsers.                               *)
(***************************************************************************)
InSeq(x, s) == \E k \in DOMAIN s : s[k] = x

\* Whether summing the lengths of the selected ids < seg raises KeyError.
PrefixMissing(sel, seg, data) ==
    \E k \in DOMAIN sel : sel[k] < seg /\ sel[k] \notin DOMAIN data

RECURSIVE PrefixLengthAll(_, _, _, _)
\* Mutation of PrefixLength: every loaded id below seg counts, selected or
\* not.
PrefixLengthAll(sel, seg, data, i) ==
    IF i >= seg THEN 0
    ELSE (IF i \in DOMAIN data THEN Len(data[i].sequence) ELSE 0)
         + PrefixLengthAll(sel, seg, data, i + 1)

PrefixLengthUnselected(sel, seg, data) == PrefixLengthAll(sel, seg, data, 1)

RECURSIVE PrefixLength(_, _, _)
\* sum(len(self.segment_data[i]['sequence']) for i in sel if i < seg)
PrefixLength(sel, seg, data) ==
    IF sel = <<>> THEN 0
    ELSE (IF Head(sel) < seg THEN Len(data[Head(sel)].sequence) ELSE 0)
         + PrefixLength(Tail(sel), seg, data)

(***************************************************************************)
(* parse_truncation                                                        *)
(*                                                                         *)
(* The argument is <<>> (not given, or the empty text) or <<t>>, t one of  *)
(*   form "range": 'a:p-b:q',   form "cut": 'a:p/' followed by n,          *)
(*   form "bare":  'a:p',       form "bad": a text int() or the unpacking  *)
(*                              rejects (ValueError).                      *)
(* In form "cut" n is <<k>> when the text after '/' is all digits and <<>> *)
(* otherwise.  A '-' anywhere selects the range branch, which leaves none  *)
(* for a sign: a, p, b, q are never negative.                              *)
(***************************************************************************)
RangeSpec(a, p, b, q) ==
    [form |-> "range", a |-> a, p |-> p, b |-> b, q |-> q, n |-> None]
CutSpec(a, p, n) ==
    [form |-> "cut", a |-> a, p |-> p, b |-> 0, q |-> 0, n |-> n]
BareSpec(a, p) ==
    [form |-> "bare", a |-> a, p |-> p, b |-> 0, q |-> 0, n |-> None]
BadSpec ==
    [form |-> "bad", a |-> 0, p |-> 0, b |-> 0, q |-> 0, n |-> None]

TruncFail(kind) == [st |-> kind, gs |-> None, ge |-> None, pac |-> None]

\* global_start of the range form (lines 140-142)
RangeGlobalStart(t, sel, data) == PrefixLength(sel, t.a, data) + t.p - 1

\* global_end of the range form (lines 144-146)
RangeGlobalEnd(t, sel, data) == PrefixLength(sel, t.b, data) + t.q

\* global_pos of the single cut forms (lines 167-169, 184-186)
CutGlobalPos(t, sel, data) == PrefixLength(sel, t.a, data) + t.p

parse_truncation(arg, sel, data) ==
    LET t == Val(arg) IN
    CASE arg = None -> [st |-> "ok", gs |-> None, ge |-> None, pac |-> None]
      [] arg # None /\ t.form = "range" ->
           IF ~InSeq(t.a, sel) \/ ~InSeq(t.b, sel) THEN TruncFail("exit")
           ELSE IF PrefixMissing(sel, t.a, data) \/ PrefixMissing(sel, t.b, data)
                THEN TruncFail("KeyError")
                ELSE [st  |-> "ok",
                      gs  |-> Some(RangeGlobalStart(t, sel, data)),
                      ge  |-> Some(RangeGlobalEnd(t, sel, data)),
                      pac |-> None]
      [] arg # None /\ t.form \in {"cut", "bare"} ->
           IF ~InSeq(t.a, sel) THEN TruncFail("exit")
           ELSE IF PrefixMissing(sel, t.a, data) THEN TruncFail("KeyError")
                ELSE [st  |-> "ok",
                      gs  |-> None,
                      ge  |-> Some(CutGlobalPos(t, sel, data)),
                      pac |-> IF t.form = "cut" THEN t.n ELSE None]
      [] OTHER -> TruncFail("exit")

(***************************************************************************)
(* parse_poly_a                                                            *)
(*                                                                         *)
(* The argument is <<>> (not given, or the empty text) or <<d>>, d one of  *)
(*   form "seg":    'a:p/n',   form "global": 'p/n',                       *)
(*   form "bad":    no '/', more than one '/', or a part int() rejects.    *)
(* int() accepts a sign, so a, p and n are any integers.                   *)
(***************************************************************************)
SegTail(a, p, n) == [form |-> "seg", a |-> a, p |-> p, n |-> n]
GlobalTail(p, n) == [form |-> "global", a |-> 0, p |-> p, n |-> n]
BadTail == [form |-> "bad", a |-> 0, p |-> 0, n |-> 0]

TailFail(kind) == [st |-> kind, pos |-> None, count |-> None]

RECURSIVE SegTailGlobalPos(_, _, _, _)
\* The loop of lines 225-231 over the selected ids.
SegTailGlobalPos(sel, seg, position, data) ==
    IF sel = <<>> THEN 0
    ELSE IF Head(sel) < seg
         THEN Len(data[Head(sel)].sequence)
              + SegTailGlobalPos(Tail(sel), seg, position, data)
         ELSE IF Head(sel) = seg THEN position
              ELSE SegTailGlobalPos(Tail(sel), seg, position, data)

\* The check of line 221.
SegTailBeyond(d, data) == d.p > Len(data[d.a].sequence)

parse_poly_a(arg, sel, data) ==
    LET d == Val(arg) IN
    CASE arg = None -> [st |-> "ok", pos |-> None, count |-> None]
      [] arg # None /\ d.form = "seg" ->
           IF ~InSeq(d.a, sel) THEN TailFail("exit")
           ELSE IF d.a \notin DOMAIN data THEN TailFail("KeyError")
           ELSE IF SegTailBeyond(d, data) THEN TailFail("exit")
           ELSE IF PrefixMissing(sel, d.a, data) THEN TailFail("KeyError")
           ELSE [st    |-> "ok",
                 pos   |-> Some(SegTailGlobalPos(sel, d.a, d.p, data)),
                 count |-> Some(d.n)]
      [] arg # None /\ d.form = "global" ->
           [st |-> "ok", pos |-> Some(d.p), count |-> Some(d.n)]
      [] OTHER -> TailFail("exit")


(***************************************************************************)
(* combine_segments                                                        *)
(*                                                                         *)
(* The returned header f">{accession}.1:{start_pos}-{end_pos} {description}"*)
(* is the record of its parts: text is the characters up to and including  *)
(* the ':' before the numbers, description the parts of the free text.     *)
(***************************************************************************)
RECURSIVE Concat(_, _)
\* combined_sequence (lines 273-275)
Concat(indices, data) ==
    IF indices = <<>> THEN <<>>
    ELSE data[Head(indices)].sequence \o Concat(Tail(indices), data)

RECURSIVE BeforeFirstDot(_)
\* accession.split('.')[0]
BeforeFirstDot(s) ==
    IF s = <<>> \/ Head(s) = "." THEN <<>>
    ELSE <<Head(s)>> \o BeforeFirstDot(Tail(s))

\* The characters the f-string of line 339 puts before start_pos.
HeaderText(accession) == <<">">> \o accession \o <<".", "1", ":">>

\* Mutation of StartContains: the test of the end offset is used.
StartContainsInclusive(cumulative_length, seg_length, offset) ==
    cumulative_length + seg_length >= offset

\* Mutation of EndContains: the test of the start offset is used.
EndContainsStrict(cumulative_length, seg_length, offset) ==
    cumulative_length + seg_length > offset

\* The containment test of the start offset (line 296).
StartContains(cumulative_length, seg_length, offset) ==
    cumulative_length + seg_length > offset

\* The containment test of the end offset (line 313).
EndContains(cumulative_length, seg_length, offset) ==
    cumulative_length + seg_length >= offset

RECURSIVE FindStart(_, _, _, _, _)
\* The loop of lines 294-299: segment_idx (1-based) and cumulative_length.
\* Without a break segment_idx keeps its initial value, the first segment.
FindStart(indices, data, i, cumulative_length, offset) ==
    IF i > Len(indices) THEN [idx |-> 1, cum |-> cumulative_length]
    ELSE LET seg_length == Len(data[indices[i]].sequence) IN
         IF StartContains(cumulative_length, seg_length, offset)
         THEN [idx |-> i, cum |-> cumulative_length]
         ELSE FindStart(indices, data, i + 1,
                        cumulative_length + seg_length, offset)

RECURSIVE FindEnd(_, _, _, _, _)
\* The loop of lines 311-316.
FindEnd(indices, data, i, cumulative_length, offset) ==
    IF i > Len(indices) THEN [idx |-> 1, cum |-> cumulative_length]
    ELSE LET seg_length == Len(data[indices[i]].sequence) IN
         IF EndContains(cumulative_length, seg_length, offset)
         THEN [idx |-> i, cum |-> cumulative_length]
         ELSE FindEnd(indices, data, i + 1,
                      cumulative_length + seg_length, offset)

\* start_pos recomputed from global_start (lines 289-304)
StartPosOf(indices, data, offset) ==
    LET f == FindStart(indices, data, 1, 0, offset)
    IN  data[indices[f.idx]].start + (offset - f.cum)

\* end_pos recomputed from global_end (lines 306-321)
EndPosOf(indices, data, offset) ==
    LET f == FindEnd(indices, data, 1, 0, offset)
    IN  data[indices[f.idx]].start + (offset - f.cum) - 1

\* Mutation of TruncationInvalid: an empty window passes.
TruncationInvalidAllowsEmpty(start_idx, end_idx, total) ==
    start_idx < 0 \/ end_idx > total \/ start_idx > end_idx

\* The range check of line 283.
TruncationInvalid(start_idx, end_idx, total) ==
    start_idx < 0 \/ end_idx > total \/ start_idx >= end_idx

\* The tail check of line 331.
TailBeyond(pos, truncated_sequence) == pos > Len(truncated_sequence)

\* Mutation of ApplyTail: the tail is inserted at pos, nothing is dropped.
ApplyTailInsert(truncated_sequence, pos, count) ==
    PySliceTo(truncated_sequence, pos) \o Repeat("A", count)
    \o SubSeq(truncated_sequence, Len(PySliceTo(truncated_sequence, pos)) + 1,
              Len(truncated_sequence))

\* The tail edit of line 334.
ApplyTail(truncated_sequence, pos, count) ==
    PySliceTo(truncated_sequence, pos) \o Repeat("A", count)

CombineFail(kind) == [st |-> kind, header |-> None, sequence |-> <<>>]

combine_segments(indices, gs, ge, pp, pcount, data) ==
    IF indices = <<>> THEN CombineFail("exit")
    ELSE IF \E k \in DOMAIN indices : indices[k] \notin DOMAIN data
    THEN CombineFail("KeyError")
    ELSE
    LET first_segment == data[indices[1]]
        last_segment == data[indices[Len(indices)]]
        accession == BeforeFirstDot(first_segment.accession)
        combined_sequence == Concat(indices, data)
        truncating == gs # None \/ ge # None
        start_idx == IF gs # None THEN Val(gs) ELSE 0
        end_idx == IF ge # None THEN Val(ge) ELSE Len(combined_sequence)
        truncated_sequence ==
            IF truncating THEN PySlice(combined_sequence, start_idx, end_idx)
            ELSE combined_sequence
        start_pos == IF truncating /\ gs # None
                     THEN StartPosOf(indices, data, Val(gs))
                     ELSE first_segment.start
        end_pos == IF truncating /\ ge # None
                   THEN EndPosOf(indices, data, Val(ge))
                   ELSE last_segment.end
        tailing == pp # None /\ pcount # None
        final_sequence ==
            IF tailing THEN ApplyTail(truncated_sequence, Val(pp), Val(pcount))
            ELSE truncated_sequence
    IN  IF truncating
           /\ TruncationInvalid(start_idx, end_idx, Len(combined_sequence))
        THEN CombineFail("exit")
        ELSE IF tailing /\ TailBeyond(Val(pp), truncated_sequence)
        THEN CombineFail("exit")
        ELSE [st |-> "ok",
              header |-> Some([text        |-> HeaderText(accession),
                               start_pos   |-> start_pos,
                               end_pos     |-> end_pos,
                               indices     |-> indices,
                               truncated   |-> truncating,
                               tail        |-> IF tailing THEN pcount
                                               ELSE None]),
              sequence |-> final_sequence]


(***************************************************************************)
(* The explored command lines.                                             *)
(***************************************************************************)
Ids == 0..(MaxRecords + 1)
LocalPositions == 0..(MaxLen + 1)
EmbeddedCounts == {None, Some(0), Some(2)}
TailCounts == {-1, 0, 2}

SelectionTokens ==
    {IdToken(n) : n \in Ids} \cup {RangeToken(x, y) : x, y \in Ids}
    \cup {BadToken}

\* Every expression of at most MaxTokens tokens (<<>>: no expression).
AllExpressions == UNION {[1..k -> SelectionTokens] : k \in 0..MaxTokens}

\* One expression for every non-empty set of record numbers.
PlainExpressions ==
    {[k \in 1..Cardinality(S) |-> IdToken(SortedSet(S)[k])] :
        S \in (SUBSET (1..MaxRecords)) \ {{}}}

RangeSpecs ==
    {RangeSpec(a, p, b, q) :
        a \in 1..MaxRecords, p \in LocalPositions,
        b \in 1..MaxRecords, q \in LocalPositions}

CutSpecs ==
    {CutSpec(a, p, n) :
        a \in 1..MaxRecords, p \in LocalPositions, n \in EmbeddedCounts}

BareSpecs == {BareSpec(a, p) : a \in 1..MaxRecords, p \in LocalPositions}

AllTruncations == RangeSpecs \cup CutSpecs \cup BareSpecs \cup {BadSpec}

\* The truncations explored against every tail: the cuts, and the ranges
\* between positions 1..MaxLen of segments not named in descending order.
TailTruncations ==
    {t \in RangeSpecs : t.a <= t.b /\ t.p \in 1..MaxLen /\ t.q \in 1..MaxLen}
    \cup CutSpecs

SegTails ==
    {SegTail(a, p, n) :
        a \in 1..MaxRecords, p \in (-1)..(MaxLen + 1), n \in TailCounts}

GlobalTails ==
    {GlobalTail(p, n) :
        p \in (-1)..(MaxRecords * MaxLen + 1), n \in TailCounts}

AllTails == SegTails \cup GlobalTails \cup {BadTail}

(***************************************************************************)
(* The run of main()                                                       *)
(***************************************************************************)
Init ==
    /\ pc = "start"
    /\ failedAt = ""
    /\ segments = <<>>
    /\ segment_data = <<>>
    /\ selection = <<>>
    /\ truncate = None
    /\ polyA = None
    /\ selected_indices = <<>>
    /\ global_start = None
    /\ global_end = None
    /\ poly_a_count_from_truncate = None
    /\ poly_a_pos = None
    /\ poly_a_count = None
    /\ header = None
    /\ sequence = <<>>

\* AtlasWriter(args.input): the constructor loads the file (lines 23-26, 457).
LoadSegments(files) ==
    /\ pc = "start"
    /\ \E file \in files :
        /\ segments' = LoadedSegments(file)
        /\ segment_data' = LoadedData(file)
    /\ pc' = "loaded"
    /\ UNCHANGED <<failedAt, selection, truncate, polyA, selected_indices,
                   global_start, global_end, poly_a_count_from_truncate,
                   poly_a_pos, poly_a_count, header, sequence>>

\* main, lines 464-469
ParseSegmentSelection(expressions) ==
    /\ pc = "loaded"
    /\ \E expr \in expressions :
        LET r == IF expr = <<>> THEN Exit
                 ELSE parse_segment_selection(expr, segments)
        IN  /\ selection' = expr
            /\ selected_indices' = r.val
            /\ pc' = IF r.st = "ok" THEN "selected" ELSE "exit"
            /\ failedAt' = IF r.st = "ok" THEN "" ELSE "selection"
    /\ UNCHANGED <<segments, segment_data, truncate, polyA,
                   global_start, global_end, poly_a_count_from_truncate,
                   poly_a_pos, poly_a_count, header, sequence>>

\* main, lines 471-474
ParseTruncation(specs) ==
    /\ pc = "selected"
    /\ \E arg \in {None} \cup {Some(t) : t \in specs} :
        LET r == parse_truncation(arg, selected_indices, segment_data)
        IN  /\ truncate' = arg
            /\ global_start' = r.gs
            /\ global_end' = r.ge
            /\ poly_a_count_from_truncate' = r.pac
            /\ pc' = IF r.st = "ok" THEN "truncated" ELSE "exit"
            /\ failedAt' = IF r.st = "ok" THEN "" ELSE "truncation"
    /\ UNCHANGED <<segments, segment_data, selection, polyA,
                   selected_indices, poly_a_pos, poly_a_count,
                   header, sequence>>

\* Mutation of MainTail: a count embedded in --truncate wins over --polyA.
MainTailEmbeddedFirst(arg, ge, pac, sel, data) ==
    IF pac # None THEN [st |-> "ok", pos |-> ge, count |-> pac]
    ELSE IF arg # None THEN parse_poly_a(arg, sel, data)
    ELSE [st |-> "ok", pos |-> None, count |-> None]

\* The tail main hands to combine_segments (lines 476-483).
MainTail(arg, ge, pac, sel, data) ==
    IF arg # None THEN parse_poly_a(arg, sel, data)
    ELSE IF pac # None THEN [st |-> "ok", pos |-> ge, count |-> pac]
    ELSE [st |-> "ok", pos |-> None, count |-> None]

\* main, lines 476-483
ParsePolyA(directives) ==
    /\ pc = "truncated"
    /\ \E arg \in {None} \cup {Some(d) : d \in directives} :
        LET r == MainTail(arg, global_end, poly_a_count_from_truncate,
                          selected_indices, segment_data)
        IN  /\ polyA' = arg
            /\ poly_a_pos' = r.pos
            /\ poly_a_count' = r.count
            /\ pc' = IF r.st = "ok" THEN "tailed" ELSE "exit"
            /\ failedAt' = IF r.st = "ok" THEN "" ELSE "polyA"
    /\ UNCHANGED <<segments, segment_data, selection, truncate,
                   selected_indices, global_start, global_end,
                   poly_a_count_from_truncate, header, sequence>>

\* main, lines 485-486
CombineSegments ==
    /\ pc = "tailed"
    /\ LET r == combine_segments(selected_indices, global_start, global_end,
                                 poly_a_pos, poly_a_count, segment_data)
       IN  /\ header' = r.header
           /\ sequence' = r.sequence
           /\ pc' = IF r.st = "ok" THEN "done" ELSE "exit"
           /\ failedAt' = IF r.st = "ok" THEN "" ELSE "combine"
    /\ UNCHANGED <<segments, segment_data, selection, truncate, polyA,
                   selected_indices, global_start, global_end,
                   poly_a_count_from_truncate, poly_a_pos, poly_a_count>>

\* Every tail against the truncations of TailTruncations.
Next ==
    \/ LoadSegments(FilesContiguous)
    \/ ParseSegmentSelection(PlainExpressions)
    \/ ParseTruncation(TailTruncations)
    \/ ParsePolyA(AllTails)
    \/ CombineSegments

Spec == Init /\ [][Next]_vars

\* Every truncation, over files of every layout, without a separate tail.
NextTruncation ==
    \/ LoadSegments(FilesWellFormed)
    \/ ParseSegmentSelection(PlainExpressions)
    \/ ParseTruncation(AllTruncations)
    \/ ParsePolyA({})
    \/ CombineSegments

SpecTruncation == Init /\ [][NextTruncation]_vars

\* Every selection expression, over files that may lose a record at load.
NextSelection ==
    \/ LoadSegments(FilesWithDrops)
    \/ ParseSegmentSelection(AllExpressions)

SpecSelection == Init /\ [][NextSelection]_vars

\* Every selection expression carried through to combine_segments, over
\* files that may lose a record at load, without truncation or tail.
NextCatalog ==
    \/ LoadSegments(FilesWithDrops)
    \/ ParseSegmentSelection(AllExpressions)
    \/ ParseTruncation({})
    \/ ParsePolyA({})
    \/ CombineSegments

SpecCatalog == Init /\ [][NextCatalog]_vars


(***************************************************************************)
(* Properties                                                              *)
(***************************************************************************)
\* The run got past the named step, or ended in it.
SelectionParsed == pc \in {"selected", "truncated", "tailed", "done"}
                   \/ failedAt \in {"selection", "truncation", "polyA", "combine"}
CombineRan == pc = "done" \/ failedAt = "combine"

CatalogSize == Len(segments)

\* The token is a single id or a range within 1..CatalogSize.
TokenWellFormed(tok) ==
    \/ tok.kind = "id" /\ 1 <= tok.a /\ tok.a <= CatalogSize
    \/ tok.kind = "range" /\ 1 <= tok.a /\ tok.a <= tok.b
       /\ tok.b <= CatalogSize

\* The ids the expression names.
NamedIds(expr) ==
    UNION {IF expr[k].kind = "id" THEN {expr[k].a}
           ELSE expr[k].a .. expr[k].b : k \in DOMAIN expr}

StrictlyAscending(s) ==
    \A j, k \in DOMAIN s : j < k => s[j] < s[k]

\* C4: parse_segment_selection succeeds exactly when every token is an id
\* N with 1 <= N <= catalogSize or a range A-B with
\* 1 <= A <= B <= catalogSize; on success it returns the strictly ascending,
\* duplicate free list of all the ids the tokens name, and otherwise it fails.
C4_SelectionParser ==
    (selection # <<>> /\ (pc = "selected" \/ failedAt = "selection")) =>
        /\ (pc = "selected") <=>
               (\A k \in DOMAIN selection : TokenWellFormed(selection[k]))
        /\ pc = "selected" =>
               /\ StrictlyAscending(selected_indices)
               /\ ToSet(selected_indices) = NamedIds(selection)
        /\ pc = "exit" => selected_indices = <<>>

\* C4 witness: an id typed before a range that starts lower and names it
\* again comes out sorted and without the duplicate.
C4_Witness ==
    /\ pc = "selected"
    /\ Len(selection) = 2
    /\ selection[1].kind = "id" /\ selection[2].kind = "range"
    /\ selection[1].a = 2 /\ selection[2].a = 1 /\ selection[2].b = 2
    /\ selected_indices = <<1, 2>>


(***************************************************************************)
(* The concatenation and the kept window, restated base by base.           *)
(***************************************************************************)
RECURSIVE OwnersOf(_)
\* For every base of the concatenation, in order: its segment and its
\* 1-based local position.
OwnersOf(sel) ==
    IF sel = <<>> THEN <<>>
    ELSE [k \in 1..Len(segment_data[Head(sel)].sequence) |->
             [id |-> Head(sel), k |-> k]]
         \o OwnersOf(Tail(sel))

Owners == OwnersOf(selected_indices)

\* The concatenated sequence of the selection.
Concatenated ==
    [j \in 1..Len(Owners) |-> segment_data[Owners[j].id].sequence[Owners[j].k]]

TotalLength == Len(Owners)

TruncationRequested == global_start # None \/ global_end # None
KeepStart == IF global_start # None THEN Val(global_start) ELSE 0
KeepEndExclusive ==
    IF global_end # None THEN Val(global_end) ELSE TotalLength

WindowValid ==
    0 <= KeepStart /\ KeepStart < KeepEndExclusive
    /\ KeepEndExclusive <= TotalLength

\* The sequence the tail step works on (meaningful when the window is valid).
CurrentSequence ==
    IF TruncationRequested
    THEN [j \in 1..(KeepEndExclusive - KeepStart) |-> Concatenated[KeepStart + j]]
    ELSE Concatenated

TailRequested == poly_a_pos # None /\ poly_a_count # None
CutOffset == Val(poly_a_pos)
TailLength == Val(poly_a_count)

\* The sequence is the first c bases of CurrentSequence and then n 'A's.
HasTailShape(c, n) ==
    /\ Len(sequence) = c + n
    /\ \A k \in 1..Len(sequence) :
          sequence[k] = IF k <= c THEN CurrentSequence[k] ELSE "A"

\* C1: for every tail directive parse_poly_a accepts and for which
\* combine_segments returns, the sequence has length cutOffset + tailLength,
\* starts with the first cutOffset bases of the (truncated) concatenation
\* and continues with 'A' only.
C1_TailAppendShape ==
    (pc = "done" /\ polyA # None) => HasTailShape(CutOffset, TailLength)

\* C2, as claimed: with the tail '0/0' and no truncation the sequence
\* returned for a non-empty concatenation is the concatenation itself.
C2_ZeroTailKeepsSequence ==
    (pc = "done" /\ polyA = Some(GlobalTail(0, 0)) /\ truncate = None
        /\ Concatenated # <<>>)
    => sequence = Concatenated

\* C2, amended: with the tail '0/0' and no truncation the sequence returned
\* is empty (everything after offset 0 is replaced by a tail of no 'A');
\* the header is that of the untruncated selection with the tail
\* annotation of 0 added.
C2_ZeroTailEmptiesSequence ==
    (pc = "done" /\ polyA = Some(GlobalTail(0, 0)) /\ truncate = None) =>
        /\ sequence = <<>>
        /\ Val(header).tail = Some(0)
        /\ ~Val(header).truncated
        /\ Val(header).indices = selected_indices
        /\ Val(header).start_pos = segment_data[selected_indices[1]].start
        /\ Val(header).end_pos =
               segment_data[selected_indices[Len(selected_indices)]].end

\* C2 witness: '0/0' applied to a concatenation of several bases.
C2_Witness ==
    /\ pc = "done" /\ polyA = Some(GlobalTail(0, 0)) /\ truncate = None
    /\ Len(selected_indices) = 2
    /\ TotalLength >= 3
    /\ sequence = <<>>

\* C3: a tail is never applied at a cutOffset outside
\* 0 <= cutOffset <= len(currentSequence): such a run fails in
\* combine_segments and returns no header and no sequence.
C3_TailOffsetChecked ==
    (CombineRan /\ TailRequested /\ (~TruncationRequested \/ WindowValid)
        /\ ~(0 <= CutOffset /\ CutOffset <= Len(CurrentSequence)))
    => (pc = "exit" /\ header = None /\ sequence = <<>>)

EmbeddedCountGiven ==
    truncate # None /\ Val(truncate).form = "cut" /\ Val(truncate).n # None

\* The linear offset a standalone directive denotes.
DirectiveOffset(d) ==
    IF d.form = "global" THEN d.p
    ELSE LET before == {j \in DOMAIN Owners : Owners[j].id < d.a}
         IN  Cardinality(before) + d.p

\* C9: when --truncate carries an embedded count and --polyA is given too,
\* the tail uses the cutOffset and tailLength of --polyA only; when only
\* the embedded count is given, the cutOffset is keepEndExclusive and the
\* result is the kept bases followed by N 'A's, keepEndExclusive + N long.
C9_StandaloneTailWins ==
    (EmbeddedCountGiven /\ (pc \in {"tailed", "done"} \/ failedAt = "combine"))
    =>  IF polyA # None
        THEN /\ poly_a_pos = Some(DirectiveOffset(Val(polyA)))
             /\ poly_a_count = Some(Val(polyA).n)
             /\ (pc = "done" /\ CutOffset >= 0 /\ TailLength >= 0)
                   => HasTailShape(DirectiveOffset(Val(polyA)), Val(polyA).n)
        ELSE /\ poly_a_pos = global_end
             /\ poly_a_count = Val(truncate).n
             /\ pc = "done" =>
                   /\ Len(sequence) = KeepEndExclusive + Val(Val(truncate).n)
                   /\ HasTailShape(KeepEndExclusive, Val(Val(truncate).n))

\* C9 witness: an embedded count of 2 at one offset, a standalone tail of no
\* 'A' at a lower offset, and a result that shows the standalone one only.
C9_Witness ==
    /\ pc = "done" /\ EmbeddedCountGiven /\ polyA # None
    /\ Val(truncate).n = Some(2)
    /\ Val(polyA).n = 0
    /\ DirectiveOffset(Val(polyA)) >= 1
    /\ DirectiveOffset(Val(polyA)) < Val(global_end)
    /\ Len(sequence) = DirectiveOffset(Val(polyA))


IsRange == truncate # None /\ Val(truncate).form = "range"
TruncationParsed ==
    pc \in {"truncated", "tailed", "done"} \/ failedAt \in {"polyA", "combine"}

\* The content length of a loaded segment.
ContentLength(id) == Len(segment_data[id].sequence)

\* A segment's whole extent as a range truncation: its first base to its
\* last base.
WholeSegmentRange(s) == Some(RangeSpec(s, 1, s, ContentLength(s)))

RoundTripCase(s) ==
    /\ pc = "done"
    /\ InSeq(s, selected_indices)
    /\ ContentLength(s) >= 1
    /\ truncate = WholeSegmentRange(s)

\* C5, as claimed: the first base of a selected segment, translated to a
\* linear offset and back, gives its referenceStart, and its last base
\* gives its referenceEnd.
C5_BoundaryRoundTrip ==
    \A s \in 1..MaxRecords :
        RoundTripCase(s) =>
            /\ Val(header).start_pos = segment_data[s].start
            /\ Val(header).end_pos = segment_data[s].end

\* C5, amended: the first base gives the segment's referenceStart; the last
\* base gives referenceStart + len(content) - 1, which is the segment's
\* referenceEnd exactly when the content is referenceEnd - referenceStart + 1
\* long (the loader does not enforce that).
C5_BoundaryRoundTripByLength ==
    \A s \in 1..MaxRecords :
        RoundTripCase(s) =>
            /\ Val(header).start_pos = segment_data[s].start
            /\ Val(header).end_pos =
                   segment_data[s].start + ContentLength(s) - 1
            /\ (Val(header).end_pos = segment_data[s].end) <=>
                   (ContentLength(s) =
                        segment_data[s].end - segment_data[s].start + 1)

\* C5 witness: the round trip of the second of two selected segments, in a
\* file whose reference ranges do not follow one another.
C5_Witness ==
    /\ RoundTripCase(2)
    /\ selected_indices = <<1, 2>>
    /\ ContentLength(1) >= 1
    /\ segment_data[2].start # segment_data[1].start + ContentLength(1)

\* prefixLength(id): the content lengths of the selected ids below id.
SelectedPrefix(id) ==
    Cardinality({j \in DOMAIN Owners : Owners[j].id < id})

\* C6: for a range truncation 'segA:posA-segB:posB' of selected segments
\* keepStart is prefixLength(segA) + posA - 1 and keepEndExclusive is
\* prefixLength(segB) + posB, unselected segments adding nothing; with valid
\* bounds the result is concatenated[keepStart:keepEndExclusive].
C6_RangeTruncation ==
    (IsRange /\ TruncationParsed) =>
        LET t == Val(truncate)
            ks == SelectedPrefix(t.a) + t.p - 1
            ke == SelectedPrefix(t.b) + t.q
        IN  /\ InSeq(t.a, selected_indices) /\ InSeq(t.b, selected_indices)
            /\ global_start = Some(ks)
            /\ global_end = Some(ke)
            /\ (CombineRan /\ 0 <= ks /\ ks < ke /\ ke <= TotalLength) =>
                  /\ pc = "done"
                  /\ Len(sequence) = ke - ks
                  /\ sequence = [j \in 1..(ke - ks) |-> Concatenated[ks + j]]

\* C6 witness: a range kept inside the second record alone, the first
\* record being loaded with bases but not selected.
C6_Witness ==
    /\ pc = "done" /\ IsRange
    /\ selected_indices = <<2>>
    /\ 1 \in DOMAIN segment_data /\ ContentLength(1) = 2
    /\ Val(truncate).p = 2 /\ Val(truncate).q = 2
    /\ global_start = Some(1)
    /\ Len(sequence) = 1

\* C7: when a truncation is requested combine_segments returns a result
\* only if 0 <= keepStart < keepEndExclusive <= totalLength; every other
\* window fails and returns neither header nor sequence.
C7_WindowChecked ==
    (CombineRan /\ TruncationRequested) =>
        /\ (pc = "done") => WindowValid
        /\ ~WindowValid => (pc = "exit" /\ header = None /\ sequence = <<>>)

\* C7 witness: an empty window (keepStart = keepEndExclusive) is refused.
C7_Witness ==
    /\ failedAt = "combine" /\ IsRange
    /\ Val(global_start) = Val(global_end)
    /\ 0 < Val(global_start) /\ Val(global_end) < TotalLength

\* C8: after a successful truncation the header's reference start is
\* referenceStart + (local index - 1) of the segment and base that is the
\* first kept character, and its reference end the same of the last kept
\* character; a side without bound keeps the first selected segment's
\* referenceStart (the last one's referenceEnd).
C8_HeaderFollowsKeptBases ==
    (pc = "done" /\ TruncationRequested) =>
        LET first == Owners[KeepStart + 1]
            last == Owners[KeepEndExclusive]
            lastSelected == selected_indices[Len(selected_indices)]
        IN  /\ Val(header).start_pos =
                   IF global_start # None
                   THEN segment_data[first.id].start + (first.k - 1)
                   ELSE segment_data[selected_indices[1]].start
            /\ Val(header).end_pos =
                   IF global_end # None
                   THEN segment_data[last.id].start + (last.k - 1)
                   ELSE segment_data[lastSelected].end

\* C8 witness: the window ends exactly on the junction of two selected
\* segments whose reference ranges do not follow one another.
C8_Witness ==
    /\ pc = "done" /\ IsRange
    /\ selected_indices = <<1, 2>>
    /\ ContentLength(1) = 2 /\ ContentLength(2) >= 1
    /\ global_start = Some(1)
    /\ global_end = Some(ContentLength(1))
    /\ segment_data[2].start # segment_data[1].start + ContentLength(1)

\* C10: the header is one '>' followed by the first selected segment's
\* accession without its version suffix, then '.1:', the reference start,
\* '-', the reference end, a space and the description.
C10_HeaderHasOneMarker ==
    pc = "done" =>
        LET text == Val(header).text
            name == BeforeFirstDot(AccessionText(selected_indices[1]))
        IN  text = <<">">> \o name \o <<".", "1", ":">>

\* The bases of the result that are not tail.
RetainedLength == Len(sequence) - TailLength

\* A range truncation that drops leading bases, with a standalone segment
\* relative tail that names a base of the kept window and a count that is
\* not negative.
SegmentTailAfterRangeCase ==
    /\ pc = "done" /\ IsRange /\ KeepStart > 0
    /\ polyA # None /\ Val(polyA).form = "seg"
    /\ Val(polyA).p >= 1 /\ Val(polyA).n >= 0
    /\ SelectedPrefix(Val(polyA).a) + Val(polyA).p > KeepStart
    /\ SelectedPrefix(Val(polyA).a) + Val(polyA).p <= KeepEndExclusive

\* C11: with a range truncation of keepStart > 0 and a standalone tail
\* 'seg:pos/N', a run that succeeds applies the cutOffset relative to the
\* truncated sequence: the part of the result before the tail ends exactly
\* with base pos of segment seg.
C11_SegmentTailEndsAtNamedBase ==
    SegmentTailAfterRangeCase =>
        /\ RetainedLength >= 1
        /\ Owners[KeepStart + RetainedLength] =
               [id |-> Val(polyA).a, k |-> Val(polyA).p]

\* The ids of the segments present in the catalog.
CatalogIds == DOMAIN segment_data

SingleId(n) == selection = <<IdToken(n)>>

\* C12: the ids parse_segment_selection accepts are the ids of the segments
\* present in the catalog, also when records were dropped at load: every
\* accepted id can be looked up by combine_segments and every catalog
\* segment can be selected by its id.
C12_AcceptedIdsAreCatalogIds ==
    (selection # <<>> /\ SelectionParsed) =>
        /\ pc # "exit" => ToSet(selected_indices) \subseteq CatalogIds
        /\ \A n \in CatalogIds : SingleId(n) => pc # "exit"
        /\ CombineRan => pc = "done"

====
